---- MODULE Spec2Model ----
(***************************************************************************)
(* FIFO lot-matching ledger (models/portfolio.py), the FIFO calculation    *)
(* run (calculators/fifo_calculator.py) and the dividend aggregation       *)
(* (calculators/dividend_calculator.py) of the Trading212 tax calculator.  *)
(*                                                                         *)
(* Transactions are Python objects: the model keeps them in a heap (a      *)
(* sequence of records) and every list of the program holds references    *)
(* (indexes into the heap), so that the in-place update of a Buy's         *)
(* quantity by process_sale is seen by every holder of the object.         *)
(***************************************************************************)
EXTENDS Integers, Sequences, FiniteSets, TLC

(***************************************************************************)
(* decimal.Decimal.  A value is coefficient * 10^exponent; every result of *)
(* an arithmetic operation is rounded to the context precision with        *)
(* ROUND_HALF_EVEN.  Python's default context has 28 significant digits;   *)
(* the model runs the same arithmetic with DecPrec digits and inputs of    *)
(* at most two digits, so that sums and differences of inputs are exact    *)
(* (as they are for brokerage quantities under 28 digits) while a          *)
(* non-terminating quotient such as 10/3 is rounded (as it is under 28).   *)
(* Values are kept normalised (no trailing zeros in the coefficient):      *)
(* Decimal equality is numeric, Decimal('1.0') == Decimal('1.00').         *)
(***************************************************************************)
DecPrec == 4

RECURSIVE Pow10(_)
Pow10(k) == IF k = 0 THEN 1 ELSE 10 * Pow10(k - 1)

RECURSIVE Digits(_)
Digits(n) == IF n < 10 THEN 1 ELSE 1 + Digits(n \div 10)

Abs(n) == IF n < 0 THEN -n ELSE n

RECURSIVE Norm(_, _)
Norm(c, e) ==
    IF c = 0 THEN [c |-> 0, e |-> 0]
    ELSE IF c % 10 = 0 THEN Norm(c \div 10, e + 1)
    ELSE [c |-> c, e |-> e]

\* Decimal(n) for an integer n, and Decimal('c E e')
Dec(n) == Norm(n, 0)
DecE(c, e) == Norm(c, e)
Zero == Dec(0)

\* Optional[Decimal] = None: a value no Decimal operation produces
NoneDec == [c |-> 0, e |-> 1]

\* least j >= 0 with n * 10^j >= d  (n > 0, d > 0)
RECURSIVE UpShift(_, _)
UpShift(n, d) == IF n >= d THEN 0 ELSE 1 + UpShift(n * 10, d)

\* ROUND_HALF_EVEN of q + r/d, 0 <= r < d
HalfEven(q, r, d) ==
    IF 2 * r > d THEN q + 1
    ELSE IF 2 * r = d THEN q + (q % 2)
    ELSE q

\* the context rounding of sign * (n/d) * 10^e to DecPrec significant digits
\* (n > 0, d > 0)
RoundQ(sign, n, d, e) ==
    LET j  == UpShift(n, d)
        dg == Digits((n * Pow10(j)) \div d)
        x  == dg - DecPrec - j
        N  == IF x < 0 THEN n * Pow10(-x) ELSE n
        D  == IF x < 0 THEN d ELSE d * Pow10(x)
        m  == HalfEven(N \div D, N % D, D)
    IN  Norm(sign * m, e + x)

\* the context rounding of an exact integer coefficient
Round(c, e) ==
    IF c = 0 THEN Zero
    ELSE IF Digits(Abs(c)) <= DecPrec THEN Norm(c, e)
    ELSE RoundQ(IF c < 0 THEN -1 ELSE 1, Abs(c), 1, e)

Min2(a, b) == IF a < b THEN a ELSE b

\* Decimal.__add__
DAdd(a, b) ==
    LET e == Min2(a.e, b.e)
    IN  Round(a.c * Pow10(a.e - e) + b.c * Pow10(b.e - e), e)

DNeg(a) == [c |-> -a.c, e |-> a.e]

\* Decimal.__sub__
DSub(a, b) == DAdd(a, DNeg(b))

\* Decimal.__mul__
DMul(a, b) == Round(a.c * b.c, a.e + b.e)

\* Decimal.__truediv__ (b # 0)
DDiv(a, b) ==
    IF a.c = 0 THEN Zero
    ELSE RoundQ(IF (a.c < 0) # (b.c < 0) THEN -1 ELSE 1,
                Abs(a.c), Abs(b.c), a.e - b.e)

\* Decimal comparison is exact (no rounding)
DLt(a, b) ==
    LET e == Min2(a.e, b.e)
    IN  a.c * Pow10(a.e - e) < b.c * Pow10(b.e - e)

DLe(a, b) == ~DLt(b, a)

\* min(a, b) and max(a, b) of the builtins: the first argument wins a tie
DMin(a, b) == IF DLt(b, a) THEN b ELSE a
DMax(a, b) == IF DLt(a, b) THEN b ELSE a

\* `x or Decimal(0)`
OrZero(x) == IF x = NoneDec THEN Zero ELSE x


(***************************************************************************)
(* models/transaction.py.  The fields the calculators read.  `type` is the *)
(* class of the object (BuyTransaction, SellTransaction,                   *)
(* DividendTransaction), as get_transaction_type() names it.  A date is    *)
(* year * 10 + ordinal within the year, so that dates of one year are      *)
(* contiguous and date order is integer order.                             *)
(***************************************************************************)
NoneStr == "<None>"

YearOf(date) == date \div 10

Transaction(type, date, ticker, quantity, total_value_pln, fees_pln) ==
    [type |-> type, date |-> date, ticker |-> ticker, quantity |-> quantity,
     currency |-> "USD", exchange_rate |-> Dec(4),
     total_value_pln |-> total_value_pln, fees_pln |-> fees_pln,
     country |-> "US", withholding_tax_pln |-> NoneDec]

BuyTransaction(date, ticker, quantity, total_value_pln, fees_pln) ==
    Transaction("BUY", date, ticker, quantity, total_value_pln, fees_pln)

SellTransaction(date, ticker, quantity, total_value_pln, fees_pln) ==
    Transaction("SELL", date, ticker, quantity, total_value_pln, fees_pln)

DividendTransaction(date, ticker, quantity, total_value_pln, country, withholding_tax_pln) ==
    [Transaction("DIVIDEND", date, ticker, quantity, total_value_pln, NoneDec)
        EXCEPT !.country = country, !.withholding_tax_pln = withholding_tax_pln]

FifoMatchResult(sell, buy, used, income, cost, profit, h) ==
    [sell_transaction |-> sell, buy_transaction |-> buy,
     used_quantity |-> used, income_pln |-> income, cost_pln |-> cost,
     profit_loss_pln |-> profit,
     sell_date |-> h[sell].date, buy_date |-> h[buy].date,
     country |-> IF h[sell].country \in {NoneStr, ""} THEN "Unknown"
                 ELSE h[sell].country,
     ticker |-> h[sell].ticker]

(***************************************************************************)
(* models/portfolio.py.  A position is its `purchases` list: a sequence of *)
(* references to Buy objects of the heap h.  A portfolio is the dict       *)
(* `positions`: a function from the tickers that have a position.          *)
(***************************************************************************)

\* list.sort(key=date) / sorted(key=date): a stable sort, here by insertion
\* of each element after every element whose key is not greater
RECURSIVE InsertByDate(_, _, _)
InsertByDate(sorted, ref, h) ==
    IF sorted = <<>> THEN <<ref>>
    ELSE IF h[sorted[Len(sorted)]].date <= h[ref].date
         THEN Append(sorted, ref)
         ELSE Append(InsertByDate(SubSeq(sorted, 1, Len(sorted) - 1), ref, h),
                     sorted[Len(sorted)])

RECURSIVE SortByDate(_, _)
SortByDate(seq, h) ==
    IF seq = <<>> THEN <<>>
    ELSE InsertByDate(SortByDate(SubSeq(seq, 1, Len(seq) - 1), h),
                      seq[Len(seq)], h)

\* add_purchase without the sort of line 19
AddPurchaseNoSort(purchases, ref, h) == Append(purchases, ref)

\* add_purchase putting the new lot at the head instead of sorting
AddPurchaseAtHead(purchases, ref, h) == <<ref>> \o purchases

\* PortfolioPosition.add_purchase
AddPurchase(purchases, ref, h) == SortByDate(Append(purchases, ref), h)

\* PortfolioPosition.get_total_shares: sum() starts from 0 and adds in order
RECURSIVE GetTotalShares(_, _)
GetTotalShares(purchases, h) ==
    IF purchases = <<>> THEN Zero
    ELSE DAdd(GetTotalShares(SubSeq(purchases, 1, Len(purchases) - 1), h),
              h[purchases[Len(purchases)]].quantity)

EmptyPortfolio == [t \in {} |-> <<>>]

\* Portfolio.add_transaction
AddTransaction(positions, ref, h) ==
    LET ticker == h[ref].ticker
        old    == IF ticker \in DOMAIN positions THEN positions[ticker] ELSE <<>>
    IN  [t \in DOMAIN positions \cup {ticker} |->
            IF t = ticker THEN AddPurchase(old, ref, h) ELSE positions[t]]

\* line 66 without the min(): the whole lot, whatever remains of the sale
SharesFromPurchaseWholeLot(remaining_shares, quantity) == quantity

\* line 66: how many shares of the sale come from the oldest purchase
SharesFromPurchase(remaining_shares, quantity) == DMin(remaining_shares, quantity)

\* lines 47 and 52: the two conditions under which process_sale raises
NotInPortfolio(positions, ticker) == ticker \notin DOMAIN positions

\* line 52 with <= for <
InsufficientSharesOrEqual(total_shares, quantity) == DLe(total_shares, quantity)

InsufficientShares(total_shares, quantity) == DLt(total_shares, quantity)

\* line 100 left out: the purchase keeps its quantity
UpdatePurchaseKeepsQuantity(h, oldest, shares) == h

\* line 100 reducing the value of the purchase along with its quantity
UpdatePurchaseScalesValue(h, oldest, shares) ==
    [h EXCEPT ![oldest].quantity = DSub(h[oldest].quantity, shares),
              ![oldest].total_value_pln =
                  DSub(@, DMul(@, DDiv(shares, h[oldest].quantity)))]

\* line 100: oldest_purchase.quantity -= shares_from_purchase, on the object
UpdatePurchase(h, oldest, shares) ==
    [h EXCEPT ![oldest].quantity = DSub(h[oldest].quantity, shares)]

\* line 102 left out: the purchase that is used up stays in the list
RemovePurchaseKeeps(purchases) == purchases

\* line 102: position.purchases.pop(0)
RemovePurchase(purchases) == Tail(purchases)

\* lines 62-104: the while loop of process_sale, one iteration per call
RECURSIVE SaleLoop(_, _, _, _, _, _)
SaleLoop(h, purchases, s, per_share, remaining_shares, results) ==
    IF ~(DLt(Zero, remaining_shares) /\ purchases # <<>>)
    THEN [heap |-> h, purchases |-> purchases, results |-> results]
    ELSE
      LET sale     == h[s]
          oldest   == purchases[1]
          lot      == h[oldest]
          shares   == SharesFromPurchase(remaining_shares, lot.quantity)
          ratio    == DDiv(shares, lot.quantity)
          income   == DMul(shares, per_share)
          purchase_cost == DMul(lot.total_value_pln, ratio)
          purchase_fees == DMul(OrZero(lot.fees_pln), ratio)
          sale_fees     == DMul(OrZero(sale.fees_pln), DDiv(shares, sale.quantity))
          total_cost    == DAdd(DAdd(purchase_cost, purchase_fees), sale_fees)
          profit_loss   == DSub(income, total_cost)
          result   == FifoMatchResult(s, oldest, shares, income, total_cost,
                                      profit_loss, h)
          partial  == DLt(shares, lot.quantity)
          h2       == IF partial THEN UpdatePurchase(h, oldest, shares) ELSE h
          p2       == IF partial THEN purchases ELSE RemovePurchase(purchases)
      IN  SaleLoop(h2, p2, s, per_share, DSub(remaining_shares, shares),
                   Append(results, result))

\* process_sale with the test of line 52 made after the loop of lines 62-104
\* instead of before it
ProcessSaleChecksAfter(h, positions, s) ==
    LET sale   == h[s]
        ticker == sale.ticker
    IN  IF NotInPortfolio(positions, ticker)
        THEN [raised |-> TRUE, error |-> "not in portfolio", available |-> Zero,
              heap |-> h, positions |-> positions, results |-> <<>>]
        ELSE
          LET r == SaleLoop(h, positions[ticker], s,
                            DDiv(sale.total_value_pln, sale.quantity),
                            sale.quantity, <<>>)
          IN  IF InsufficientShares(GetTotalShares(positions[ticker], h),
                                    sale.quantity)
              THEN [raised |-> TRUE, error |-> "only available",
                    available |-> GetTotalShares(positions[ticker], h),
                    heap |-> r.heap,
                    positions |-> [positions EXCEPT ![ticker] = r.purchases],
                    results |-> <<>>]
              ELSE [raised |-> FALSE, error |-> "", available |-> Zero,
                    heap |-> r.heap,
                    positions |-> [positions EXCEPT ![ticker] = r.purchases],
                    results |-> r.results]

\* Portfolio.process_sale: `raised` says whether it raised ValueError, `error`
\* which of the two messages, and heap/positions/results what it left behind
ProcessSale(h, positions, s) ==
    LET sale   == h[s]
        ticker == sale.ticker
    IN  IF NotInPortfolio(positions, ticker)
        THEN [raised |-> TRUE, error |-> "not in portfolio", available |-> Zero,
              heap |-> h, positions |-> positions, results |-> <<>>]
        ELSE IF InsufficientShares(GetTotalShares(positions[ticker], h), sale.quantity)
        THEN [raised |-> TRUE, error |-> "only available",
              available |-> GetTotalShares(positions[ticker], h),
              heap |-> h, positions |-> positions, results |-> <<>>]
        ELSE
          LET r == SaleLoop(h, positions[ticker], s,
                            DDiv(sale.total_value_pln, sale.quantity),
                            sale.quantity, <<>>)
          IN  [raised |-> FALSE, error |-> "", available |-> Zero,
               heap |-> r.heap,
               positions |-> [positions EXCEPT ![ticker] = r.purchases],
               results |-> r.results]

(***************************************************************************)
(* calculators/fifo_calculator.py                                          *)
(***************************************************************************)

\* an entry of an `issues` list: the f-string's text and the values it holds
Issue(msg, index, type, ticker, quantity, available) ==
    [msg |-> msg, index |-> index, type |-> type, ticker |-> ticker,
     quantity |-> quantity, available |-> available]

\* FifoCalculator.validate, lines 59-75: the issues of transaction #i
TransactionIssues(i, tx) ==
    (IF tx.ticker = ""
     THEN <<Issue("has no ticker", i, tx.type, "", Zero, Zero)>> ELSE <<>>)
    \o (IF DLe(tx.quantity, Zero)
        THEN <<Issue("has invalid quantity", i, tx.type, "", tx.quantity, Zero)>>
        ELSE <<>>)
    \o (IF tx.exchange_rate = NoneDec /\ tx.currency # "PLN"
        THEN <<Issue("has no exchange rate for currency", i, tx.type,
                     tx.currency, Zero, Zero)>>
        ELSE <<>>)
    \o (IF tx.total_value_pln = NoneDec
        THEN <<Issue("has no PLN value", i, tx.type, "", Zero, Zero)>> ELSE <<>>)

RECURSIVE AllTransactionIssues(_, _)
AllTransactionIssues(transactions, n) ==
    IF n = 0 THEN <<>>
    ELSE AllTransactionIssues(transactions, n - 1)
         \o TransactionIssues(n - 1, transactions[n])

\* validate that looks at the first transaction only
FifoValidateFirstOnly(transactions) ==
    IF transactions = <<>>
    THEN <<Issue("No transactions to process", -1, "", "", Zero, Zero)>>
    ELSE TransactionIssues(0, transactions[1])

\* FifoCalculator.validate (every element of the batch is a Transaction, so
\* the hasattr test of line 60 never fails)
FifoValidate(transactions) ==
    IF transactions = <<>>
    THEN <<Issue("No transactions to process", -1, "", "", Zero, Zero)>>
    ELSE AllTransactionIssues(transactions, Len(transactions))

\* line 108 with a sort that is not stable: equal dates come out in reverse
RECURSIVE InsertBeforeEqual(_, _, _)
InsertBeforeEqual(sorted, ref, h) ==
    IF sorted = <<>> THEN <<ref>>
    ELSE IF h[sorted[Len(sorted)]].date < h[ref].date
         THEN Append(sorted, ref)
         ELSE Append(InsertBeforeEqual(SubSeq(sorted, 1, Len(sorted) - 1), ref, h),
                     sorted[Len(sorted)])

RECURSIVE SortByDateUnstable(_, _)
SortByDateUnstable(seq, h) ==
    IF seq = <<>> THEN <<>>
    ELSE InsertBeforeEqual(SortByDateUnstable(SubSeq(seq, 1, Len(seq) - 1), h),
                           seq[Len(seq)], h)

SortedTransactionsUnstable(transactions) ==
    SortByDateUnstable([i \in 1..Len(transactions) |-> i], transactions)

\* line 108 left out: the batch is processed in the order of the input
SortedTransactionsInputOrder(transactions) ==
    [i \in 1..Len(transactions) |-> i]

\* line 108: sorted(transactions, key=lambda tx: tx.date), as references
SortedTransactions(transactions) ==
    SortByDate([i \in 1..Len(transactions) |-> i], transactions)

\* line 118 without the test: no sale is skipped
OutsideTaxYearNever(year, tx) == FALSE

\* line 118: the tax-year test that skips a sale
OutsideTaxYear(year, tx) == year # {} /\ YearOf(tx.date) \notin year

\* line 128: f"Error processing sale of {tx.ticker}: {str(e)}"
SaleIssue(tx, r) ==
    Issue("Error processing sale: " \o r.error, -1, "", tx.ticker,
          tx.quantity, r.available)

NoStats == [k \in {} |-> 0]

FifoCalculationResult(m, p, st, iss) ==
    [matches |-> m, portfolio |-> p, stats |-> st, issues |-> iss]

\* lines 111-128: the loop of calculate from its i-th iteration to its end,
\* as a function of the locals; `heap` is what the loop leaves of the objects
RECURSIVE FifoLoop(_, _, _, _, _, _, _, _)
FifoLoop(h, pos, sorted, i, ms, iss, st, year) ==
    IF i > Len(sorted)
    THEN [heap |-> h, result |-> FifoCalculationResult(ms, pos, st, iss)]
    ELSE
      LET ref == sorted[i]
          tx  == h[ref]
      IN  IF tx.type = "BUY"
          THEN FifoLoop(h, AddTransaction(pos, ref, h), sorted, i + 1, ms, iss,
                        [st EXCEPT !.buy_count = @ + 1], year)
          ELSE IF tx.type = "SELL" /\ ~OutsideTaxYear(year, tx)
          THEN LET r == ProcessSale(h, pos, ref)
               IN  IF r.raised
                   THEN FifoLoop(h, pos, sorted, i + 1, ms,
                                 Append(iss, SaleIssue(tx, r)), st, year)
                   ELSE FifoLoop(r.heap, r.positions, sorted, i + 1,
                                 ms \o r.results, iss,
                                 [st EXCEPT !.sell_count = @ + 1,
                                            !.fifo_match_count = @ + Len(r.results)],
                                 year)
          ELSE FifoLoop(h, pos, sorted, i + 1, ms, iss, st, year)

\* FifoCalculator.calculate as a function of the batch and the tax year
FifoCalculate(transactions, year) ==
    IF FifoValidate(transactions) # <<>>
    THEN [heap |-> transactions,
          result |-> FifoCalculationResult(<<>>, EmptyPortfolio, NoStats,
                                           FifoValidate(transactions))]
    ELSE FifoLoop(transactions, EmptyPortfolio, SortedTransactions(transactions),
                  1, <<>>, <<>>,
                  [buy_count |-> 0, sell_count |-> 0, fifo_match_count |-> 0],
                  year)

(***************************************************************************)
(* calculators/dividend_calculator.py                                      *)
(***************************************************************************)

\* DividendCalculator.tax_rate: main.py passes settings.DEFAULT_TAX_RATE,
\* Decimal('0.19'), which is also the default of __init__
TaxRate == DecE(19, -2)

\* lines 76 and 113 without the isinstance test
OnlyDividendsUnfiltered(refs, h) == refs

\* [tx for tx in refs if isinstance(tx, DividendTransaction)]
OnlyDividends(refs, h) ==
    LET IsDividend(r) == h[r].type = "DIVIDEND"
    IN  SelectSeq(refs, IsDividend)

\* lines 113-117: the dividends of the batch, of the tax year if one is given
DividendsOf(transactions, year) ==
    LET InYear(r) == YearOf(transactions[r].date) \in year
        all == OnlyDividends([i \in 1..Len(transactions) |-> i], transactions)
    IN  IF year # {} THEN SelectSeq(all, InYear) ELSE all

\* DividendCalculator.validate, lines 84-97: the issues of dividend #i
DividendIssues(i, tx) ==
    (IF tx.ticker = ""
     THEN <<Issue("Dividend has no ticker", i, "", "", Zero, Zero)>> ELSE <<>>)
    \o (IF DLe(tx.quantity, Zero)
        THEN <<Issue("Dividend has invalid quantity", i, "", "", tx.quantity, Zero)>>
        ELSE <<>>)
    \o (IF tx.exchange_rate = NoneDec /\ tx.currency # "PLN"
        THEN <<Issue("Dividend has no exchange rate for currency", i, "",
                     tx.currency, Zero, Zero)>>
        ELSE <<>>)
    \o (IF tx.total_value_pln = NoneDec
        THEN <<Issue("Dividend has no PLN value", i, "", "", Zero, Zero)>>
        ELSE <<>>)
    \o (IF tx.country = NoneStr \/ tx.country = ""
        THEN <<Issue("Dividend has no country information", i, "", "", Zero, Zero)>>
        ELSE <<>>)

\* the loop of lines 83-97 leaving at the first dividend that has an issue
AllDividendIssuesUntilFirst(refs, h, n) ==
    LET failing == {k \in 1..n : DividendIssues(k - 1, h[refs[k]]) # <<>>}
    IN  IF failing = {} THEN <<>>
        ELSE LET k == CHOOSE k \in failing : \A j \in failing : k <= j
             IN  DividendIssues(k - 1, h[refs[k]])

RECURSIVE AllDividendIssues(_, _, _)
AllDividendIssues(refs, h, n) ==
    IF n = 0 THEN <<>>
    ELSE AllDividendIssues(refs, h, n - 1) \o DividendIssues(n - 1, h[refs[n]])

NoDividendsFound ==
    Issue("No dividend transactions found", -1, "", "", Zero, Zero)

\* DividendCalculator.validate, on a list of references
DividendValidate(refs, h) ==
    IF refs = <<>>
    THEN <<Issue("No transactions to process", -1, "", "", Zero, Zero)>>
    ELSE LET dividends == OnlyDividends(refs, h)
         IN  IF dividends = <<>>
             THEN <<NoDividendsFound>>
             ELSE AllDividendIssues(dividends, h, Len(dividends))

\* lines 121-126: what calculate returns as issues when validate reported some
ReturnedIssues(iss) ==
    IF \E k \in 1..Len(iss) : iss[k] = NoDividendsFound THEN <<>> ELSE iss

DividendSummary(country) ==
    [country |-> country, total_dividend_pln |-> Zero,
     tax_paid_abroad_pln |-> Zero, tax_due_poland |-> Zero,
     tax_to_pay |-> Zero, transactions |-> <<>>]

\* line 142: tx.country or "Unknown"
CountryKey(tx) ==
    IF tx.country = NoneStr \/ tx.country = "" THEN "Unknown" ELSE tx.country

\* the place of a key in the dict `summaries` (kept in insertion order), 0 if
\* the key is not in it
KeyIndex(sums, country) ==
    IF \E k \in 1..Len(sums) : sums[k].country = country
    THEN CHOOSE k \in 1..Len(sums) : sums[k].country = country
    ELSE 0

\* lines 149-160 with `+=` on None propagated: a dividend without withholding
\* tax is not added at all
AddDividendNonePropagated(summary, ref, h) ==
    IF h[ref].withholding_tax_pln = NoneDec
    THEN [summary EXCEPT !.transactions = Append(@, ref)]
    ELSE [summary EXCEPT
            !.total_dividend_pln = DAdd(@, h[ref].total_value_pln),
            !.tax_paid_abroad_pln = DAdd(@, h[ref].withholding_tax_pln),
            !.transactions = Append(@, ref)]

\* lines 149-160: one dividend added to the summary of its country
AddDividend(summary, ref, h) ==
    LET tx == h[ref]
        s1 == IF tx.total_value_pln # NoneDec
              THEN [summary EXCEPT
                      !.total_dividend_pln = DAdd(@, tx.total_value_pln)]
              ELSE summary
        s2 == IF tx.withholding_tax_pln # NoneDec
              THEN [s1 EXCEPT
                      !.tax_paid_abroad_pln = DAdd(@, tx.withholding_tax_pln)]
              ELSE s1
    IN  [s2 EXCEPT !.transactions = Append(@, ref)]

\* line 165
TaxDuePoland(total_dividend_pln) == DMul(total_dividend_pln, TaxRate)

\* line 169 without the max()
TaxToPayUnfloored(tax_due_poland, tax_paid_abroad_pln) ==
    DSub(tax_due_poland, tax_paid_abroad_pln)

\* line 169
TaxToPay(tax_due_poland, tax_paid_abroad_pln) ==
    DMax(Zero, DSub(tax_due_poland, tax_paid_abroad_pln))

NoDividendStats ==
    [dividend_count |-> 0, total_dividend_pln |-> Zero,
     total_tax_paid_abroad_pln |-> Zero, total_tax_due_poland |-> Zero,
     total_tax_to_pay |-> Zero]

DividendCalculationResult(sums, st, iss) ==
    [summaries |-> sums, stats |-> st, issues |-> iss]

\* lines 141-160: the first loop of calculate from its i-th iteration on
RECURSIVE DividendLoop(_, _, _, _, _)
DividendLoop(dts, h, i, sums, st) ==
    IF i > Len(dts) THEN [summaries |-> sums, stats |-> st]
    ELSE
      LET ref     == dts[i]
          tx      == h[ref]
          country == CountryKey(tx)
          sums1   == IF KeyIndex(sums, country) = 0
                     THEN Append(sums, DividendSummary(country))
                     ELSE sums
          k       == KeyIndex(sums1, country)
      IN  DividendLoop(dts, h, i + 1,
              [sums1 EXCEPT ![k] = AddDividend(sums1[k], ref, h)],
              [st EXCEPT
                 !.total_dividend_pln =
                     IF tx.total_value_pln # NoneDec
                     THEN DAdd(@, tx.total_value_pln) ELSE @,
                 !.total_tax_paid_abroad_pln =
                     IF tx.withholding_tax_pln # NoneDec
                     THEN DAdd(@, tx.withholding_tax_pln) ELSE @])

\* lines 163-170: the second loop of calculate from its i-th iteration on
RECURSIVE FinalizeLoop(_, _, _)
FinalizeLoop(sums, i, st) ==
    IF i > Len(sums) THEN [summaries |-> sums, stats |-> st]
    ELSE
      LET due == TaxDuePoland(sums[i].total_dividend_pln)
          pay == TaxToPay(due, sums[i].tax_paid_abroad_pln)
      IN  FinalizeLoop([sums EXCEPT ![i].tax_due_poland = due,
                                    ![i].tax_to_pay = pay],
                       i + 1,
                       [st EXCEPT !.total_tax_due_poland = DAdd(@, due),
                                  !.total_tax_to_pay = DAdd(@, pay)])

\* DividendCalculator.calculate as a function of the batch and the tax year
DividendCalculate(transactions, year) ==
    LET dts == DividendsOf(transactions, year)
        iss == DividendValidate(dts, transactions)
    IN  IF iss # <<>>
        THEN DividendCalculationResult(<<>>, NoStats, ReturnedIssues(iss))
        ELSE LET folded == DividendLoop(dts, transactions, 1, <<>>,
                               [NoDividendStats EXCEPT !.dividend_count = Len(dts)])
                 final  == FinalizeLoop(folded.summaries, 1, folded.stats)
             IN  DividendCalculationResult(final.summaries, final.stats, <<>>)

(***************************************************************************)
(* State.                                                                  *)
(*   heap        the transaction objects (the input batch of a calculation *)
(*               run; every object handed to the ledger in direct use)     *)
(*   positions   Portfolio.positions                                       *)
(*   results, outcome, sale, pre                                           *)
(*               the last direct call of the ledger: what process_sale     *)
(*               returned, whether it raised, the sale it was given, and   *)
(*               whether the sale's ticker had a position and the          *)
(*               (reference, quantity) list of it when it was called       *)
(*   tax_year    the tax_year argument: {} for None, {y} for year y        *)
(*   pc          where calculate stands: "start", "loop", "done"           *)
(*   sorted_transactions, idx                                              *)
(*               the list the loop of calculate iterates and the position  *)
(*               of the loop in it                                         *)
(*   matches, issues, stats                                                *)
(*               the locals of calculate; at "done" the returned result    *)
(*   run, first  which of two successive calls of calculate on the same    *)
(*               transaction objects runs, and what the first returned     *)
(*   dividend_transactions, summaries                                      *)
(*               locals of DividendCalculator.calculate: the filtered list *)
(*               of dividends, and the dict of summaries as the list of    *)
(*               its values in insertion order                             *)
(***************************************************************************)
VARIABLES heap, positions, results, outcome, sale, pre,
          tax_year, pc, sorted_transactions, idx, matches, issues, stats,
          run, first, dividend_transactions, summaries

ledgerVars == <<results, outcome, sale, pre>>
dividendVars == <<dividend_transactions, summaries>>
calcVars == <<tax_year, pc, sorted_transactions, idx, matches, issues, stats,
              run, first, dividend_transactions, summaries>>
vars == <<heap, positions, results, outcome, sale, pre,
          tax_year, pc, sorted_transactions, idx, matches, issues, stats,
          run, first, dividend_transactions, summaries>>

NoResult == FifoCalculationResult(<<>>, EmptyPortfolio, NoStats, <<>>)

LedgerIdle ==
    /\ results = <<>>
    /\ outcome = "none"
    /\ sale = 0
    /\ pre = [held |-> FALSE, lots |-> <<>>]

DividendIdle ==
    /\ dividend_transactions = <<>>
    /\ summaries = <<>>

CalcIdle ==
    /\ tax_year = {}
    /\ pc = "idle"
    /\ sorted_transactions = <<>>
    /\ idx = 0
    /\ matches = <<>>
    /\ issues = <<>>
    /\ stats = NoStats
    /\ run = 0
    /\ first = NoResult
    /\ DividendIdle

(***************************************************************************)
(* Direct use of the ledger: any interleaving of Portfolio.add_transaction *)
(* and Portfolio.process_sale on valid transactions (quantity > 0, PLN     *)
(* value present), at most MaxCalls calls.                                 *)
(***************************************************************************)
MaxCalls == 4

LedgerBuys ==
    {BuyTransaction(20211, "AAA", Dec(10), Dec(100), NoneDec),
     BuyTransaction(20211, "AAA", Dec(20), Dec(70), Dec(2)),
     BuyTransaction(20216, "AAA", Dec(10), Dec(70), Dec(2)),
     BuyTransaction(20216, "AAA", Dec(20), Dec(100), NoneDec),
     BuyTransaction(20211, "BBB", Dec(10), Dec(100), NoneDec)}

LedgerSales ==
    {SellTransaction(20219, "AAA", Dec(3), Dec(10), NoneDec),
     SellTransaction(20219, "AAA", Dec(15), Dec(100), Dec(1)),
     SellTransaction(20219, "AAA", Dec(20), Dec(10), Dec(1)),
     SellTransaction(20219, "AAA", Dec(21), Dec(100), NoneDec),
     SellTransaction(20219, "BBB", Dec(3), Dec(10), NoneDec)}

Snapshot(purchases, h) ==
    [i \in 1..Len(purchases) |->
        [ref |-> purchases[i], quantity |-> h[purchases[i]].quantity]]

LedgerInit ==
    /\ heap = <<>>
    /\ positions = EmptyPortfolio
    /\ LedgerIdle
    /\ CalcIdle

\* portfolio.add_transaction(buy)
AddTransactionCall ==
    /\ Len(heap) < MaxCalls
    /\ \E buy \in LedgerBuys :
         LET h == Append(heap, buy)
         IN  /\ heap' = h
             /\ positions' = AddTransaction(positions, Len(h), h)
    /\ results' = <<>>
    /\ outcome' = "none"
    /\ sale' = 0
    /\ pre' = [held |-> FALSE, lots |-> <<>>]
    /\ UNCHANGED calcVars

\* portfolio.process_sale(sell)
ProcessSaleCall ==
    /\ Len(heap) < MaxCalls
    /\ \E sell \in LedgerSales :
         LET h == Append(heap, sell)
             r == ProcessSale(h, positions, Len(h))
         IN  /\ heap' = r.heap
             /\ positions' = r.positions
             /\ results' = r.results
             /\ outcome' = IF r.raised THEN "raised" ELSE "returned"
             /\ sale' = Len(h)
             /\ pre' = IF sell.ticker \in DOMAIN positions
                       THEN [held |-> TRUE,
                             lots |-> Snapshot(positions[sell.ticker], h)]
                       ELSE [held |-> FALSE, lots |-> <<>>]
    /\ UNCHANGED calcVars

LedgerNext == AddTransactionCall \/ ProcessSaleCall

SpecLedger == LedgerInit /\ [][LedgerNext]_vars


(***************************************************************************)
(* Properties of Portfolio.process_sale in direct use (SpecLedger).        *)
(* Sums in the properties are exact sums of the decimal values (integer    *)
(* arithmetic at a common exponent), not context-rounded Decimal sums.     *)
(***************************************************************************)
Elements(seq) == {seq[i] : i \in 1..Len(seq)}

Scaled(d, e) == d.c * Pow10(d.e - e)

RECURSIVE MinExponent(_)
MinExponent(ds) ==
    IF Len(ds) = 1 THEN ds[1].e ELSE Min2(ds[1].e, MinExponent(Tail(ds)))

RECURSIVE SumScaled(_, _)
SumScaled(ds, e) ==
    IF ds = <<>> THEN 0 ELSE Scaled(ds[1], e) + SumScaled(Tail(ds), e)

\* the exact sum of the decimals ds is the decimal total
ExactSumIs(ds, total) ==
    LET e == MinExponent(Append(ds, total))
    IN  SumScaled(ds, e) = Scaled(total, e)

\* the exact sum of the decimals ds is less than the decimal bound
ExactSumBelow(ds, bound) ==
    LET e == MinExponent(Append(ds, bound))
    IN  SumScaled(ds, e) < Scaled(bound, e)

UsedQuantities(ms) == [i \in 1..Len(ms) |-> ms[i].used_quantity]
Incomes(ms) == [i \in 1..Len(ms) |-> ms[i].income_pln]
LotQuantities(lots) == [i \in 1..Len(lots) |-> lots[i].quantity]

\* C1: whenever process_sale returns, the used_quantity values of the matches
\* it returns sum exactly to the quantity of the sale.
C1_UsedQuantityConserved ==
    outcome = "returned" =>
        ExactSumIs(UsedQuantities(results), heap[sale].quantity)

\* a sale that returned after consuming one lot whole and a second in part
C1_Witness ==
    /\ outcome = "returned"
    /\ Len(results) = 2
    /\ results[1].used_quantity = pre.lots[1].quantity
    /\ DLt(results[2].used_quantity, pre.lots[2].quantity)

\* C2: whenever process_sale returns, the income_pln values of the matches it
\* returns sum exactly to the total_value_pln of the sale.
C2_IncomeConserved ==
    outcome = "returned" =>
        ExactSumIs(Incomes(results), heap[sale].total_value_pln)

\* C3: process_sale consumes the lots oldest-first: the lot list it starts
\* from is in date order, the matches are against a prefix of it in that order,
\* every matched lot but the last is consumed whole, no lot left in the
\* position is older than a matched lot, and lots of 10 and 10 shares dated
\* 20211 and 20216 against a sale of 15 give exactly the matches 10 and 5.
C3_OldestFirst ==
    outcome = "returned" =>
        /\ \A i \in 1..Len(pre.lots) : \A j \in 1..Len(pre.lots) :
              i < j => heap[pre.lots[i].ref].date <= heap[pre.lots[j].ref].date
        /\ Len(results) <= Len(pre.lots)
        /\ \A i \in 1..Len(results) :
              /\ results[i].buy_transaction = pre.lots[i].ref
              /\ i < Len(results) => results[i].used_quantity = pre.lots[i].quantity
              /\ \A k \in 1..Len(positions[heap[sale].ticker]) :
                    heap[positions[heap[sale].ticker][k]].date
                        >= results[i].buy_date
        /\ ( /\ Len(pre.lots) = 2
             /\ heap[pre.lots[1].ref].date = 20211
             /\ heap[pre.lots[2].ref].date = 20216
             /\ pre.lots[1].quantity = Dec(10)
             /\ pre.lots[2].quantity = Dec(10)
             /\ heap[sale].quantity = Dec(15) )
           => /\ Len(results) = 2
              /\ results[1].buy_transaction = pre.lots[1].ref
              /\ results[1].used_quantity = Dec(10)
              /\ results[2].buy_transaction = pre.lots[2].ref
              /\ results[2].used_quantity = Dec(5)

\* the sale of 15 against the lots of 10 (20211) and 10 (20216), the older lot
\* having been inserted after the younger one
C3_Witness ==
    /\ outcome = "returned"
    /\ Len(pre.lots) = 2
    /\ heap[pre.lots[1].ref].date = 20211
    /\ heap[pre.lots[2].ref].date = 20216
    /\ pre.lots[1].ref > pre.lots[2].ref
    /\ pre.lots[1].quantity = Dec(10)
    /\ pre.lots[2].quantity = Dec(10)
    /\ heap[sale].quantity = Dec(15)
    /\ Len(results) = 2

\* C5: process_sale raises exactly when the ticker has no position or the
\* position holds fewer shares than the sale; then it returns no match (21
\* sold of 20 held raises); a sale of exactly the shares held returns and
\* leaves the position without lots.
C5_InsufficientShares ==
    outcome # "none" =>
        /\ (outcome = "raised") <=>
               (\/ ~pre.held
                \/ ExactSumBelow(LotQuantities(pre.lots), heap[sale].quantity))
        /\ outcome = "raised" => results = <<>>
        /\ ( /\ pre.held
             /\ ExactSumIs(LotQuantities(pre.lots), Dec(20))
             /\ heap[sale].quantity = Dec(21) )
           => outcome = "raised" /\ results = <<>>
        /\ (pre.held /\ ExactSumIs(LotQuantities(pre.lots), heap[sale].quantity))
           => /\ outcome = "returned"
              /\ results # <<>>
              /\ positions[heap[sale].ticker] = <<>>

\* a sale of exactly the 20 shares that two lots of 10 hold
C5_Witness ==
    /\ outcome = "returned"
    /\ Len(pre.lots) = 2
    /\ ExactSumIs(LotQuantities(pre.lots), heap[sale].quantity)
    /\ heap[sale].quantity = Dec(20)
    /\ positions[heap[sale].ticker] = <<>>

\* C18: in every state of the ledger, after any sequence of add_transaction
\* and process_sale calls, the lots of each position are in ascending order of
\* purchase date.
C18_LotsSortedByDate ==
    \A t \in DOMAIN positions :
        \A i \in 1..Len(positions[t]) : \A j \in 1..Len(positions[t]) :
            i < j => heap[positions[t][i]].date <= heap[positions[t][j]].date

\* a sale has returned leaving a position whose head lot, of the earlier
\* date, was bought (inserted) after the lot that follows it
C18_Witness ==
    /\ outcome = "returned"
    /\ \E t \in DOMAIN positions :
          /\ Len(positions[t]) = 2
          /\ positions[t][1] > positions[t][2]
          /\ heap[positions[t][1]].date < heap[positions[t][2]].date
          /\ heap[sale].ticker = t

C20_Step ==
    outcome' = "raised" =>
        /\ positions' = positions
        /\ Len(heap') = Len(heap) + 1
        /\ SubSeq(heap', 1, Len(heap)) = heap

\* C20: a process_sale call that raises leaves the positions, the lot
\* sequence of every position and every lot (its remaining quantity
\* included) as they were before the call.
C20_FailedSaleLeavesLedger == [][C20_Step]_vars

\* a sale has raised on a position of two lots that hold fewer shares than
\* it sells, and the two lots are still there
C20_Witness ==
    /\ outcome = "raised"
    /\ pre.held
    /\ Len(pre.lots) = 2
    /\ Len(positions[heap[sale].ticker]) = 2

\* the remaining quantities of the lots of ticker t, oldest first
OpenQuantities(pos, h, t) ==
    IF t \in DOMAIN pos
    THEN [i \in 1..Len(pos[t]) |-> h[pos[t][i]].quantity]
    ELSE <<>>

\* the exact sums of the decimals of as and of bs are equal
ExactSumsEqual(as, bs) ==
    LET e == MinExponent(as \o bs \o <<Zero>>)
    IN  SumScaled(as, e) = SumScaled(bs, e)

\* one call: for every ticker, the open shares after the call and the shares
\* the call's matches used add up to the open shares before the call and the
\* shares the call inserted
C21_Step ==
    LET new == heap'[Len(heap')]
    IN  \A t \in DOMAIN positions' \cup {new.ticker} :
          LET bought == IF new.type = "BUY" /\ new.ticker = t
                        THEN <<new.quantity>> ELSE <<>>
              used   == IF new.type = "SELL" /\ new.ticker = t
                        THEN UsedQuantities(results') ELSE <<>>
          IN  ExactSumsEqual(OpenQuantities(positions', heap', t) \o used,
                             OpenQuantities(positions, heap, t) \o bought)

\* C21: after any sequence of add_transaction and process_sale calls the open
\* shares of every ticker, the exact sum of the remaining quantities of its
\* lots, are the quantities of the Buys inserted less the used_quantity of
\* the matches produced for it, call by call, and are never negative.
C21_ShareConservation ==
    /\ [](\A t \in DOMAIN positions :
            ~ExactSumBelow(OpenQuantities(positions, heap, t), Zero))
    /\ [][C21_Step]_vars

\* a sale has returned two matches, used up the first of three lots and cut
\* the second, so that the position is left with a reduced lot and a whole one
C21_Witness ==
    /\ outcome = "returned"
    /\ Len(results) = 2
    /\ Len(pre.lots) = 3
    /\ Len(positions[heap[sale].ticker]) = 2
    /\ DLt(heap[positions[heap[sale].ticker][1]].quantity, pre.lots[2].quantity)
    /\ heap[positions[heap[sale].ticker][2]].quantity = pre.lots[3].quantity

\* C22: every match process_sale returns has, with q its used_quantity and r
\* = q / the quantity the lot had when the sale reached it, income_pln =
\* q * sale.total_value_pln / sale.quantity, cost_pln = lot.total_value_pln *
\* r + lot.fees_pln * r + sale.fees_pln * q / sale.quantity (a missing fee
\* is zero) and profit_loss_pln = income_pln - cost_pln, each expression
\* evaluated in decimal arithmetic as it is written.
C22_MatchFormulas ==
    outcome = "returned" =>
        \A i \in 1..Len(results) :
            LET m   == results[i]
                lot == heap[m.buy_transaction]
                s   == heap[sale]
                q   == m.used_quantity
                r   == DDiv(q, pre.lots[i].quantity)
            IN  /\ m.buy_transaction = pre.lots[i].ref
                /\ m.income_pln = DDiv(DMul(q, s.total_value_pln), s.quantity)
                /\ m.cost_pln =
                     DAdd(DAdd(DMul(lot.total_value_pln, r),
                               DMul(OrZero(lot.fees_pln), r)),
                          DDiv(DMul(OrZero(s.fees_pln), q), s.quantity))
                /\ m.profit_loss_pln = DSub(m.income_pln, m.cost_pln)

\* the k-th lot of the position the sale started from is cut by its match
CutByMatch(k) == DLt(results[k].used_quantity, pre.lots[k].quantity)

\* C28: every lot of every position has a quantity > 0, and when process_sale
\* returns, its matches are one per lot touched, in the order of the lots,
\* each with used_quantity > 0; a lot used whole has left the position, a lot
\* used in part is still there, the same object, with its quantity reduced by
\* the used quantity; the lots not touched are as before; at most one lot is
\* used in part.
C28_OneMatchPerLot ==
    /\ \A t \in DOMAIN positions : \A k \in 1..Len(positions[t]) :
          DLt(Zero, heap[positions[t][k]].quantity)
    /\ outcome = "returned" =>
          LET lots == positions[heap[sale].ticker]
              n    == Len(results)
              cut  == {k \in 1..n : CutByMatch(k)}
              gone == n - Cardinality(cut)
          IN  /\ n <= Len(pre.lots)
              /\ \A k \in 1..n :
                    /\ results[k].buy_transaction = pre.lots[k].ref
                    /\ DLt(Zero, results[k].used_quantity)
                    /\ DLe(results[k].used_quantity, pre.lots[k].quantity)
                    /\ ~CutByMatch(k) => pre.lots[k].ref \notin Elements(lots)
                    /\ CutByMatch(k) =>
                          /\ lots[1] = pre.lots[k].ref
                          /\ heap[lots[1]].quantity =
                                DSub(pre.lots[k].quantity, results[k].used_quantity)
              /\ Cardinality(cut) <= 1
              /\ Len(lots) = Len(pre.lots) - gone
              /\ \A k \in (n + 1)..Len(pre.lots) :
                    /\ lots[k - gone] = pre.lots[k].ref
                    /\ heap[pre.lots[k].ref].quantity = pre.lots[k].quantity

\* a sale has returned three matches from three lots: two lots used whole
\* and gone, the third cut and now alone in the position
C28_Witness ==
    /\ outcome = "returned"
    /\ Len(results) = 3
    /\ Len(pre.lots) = 3
    /\ CutByMatch(3)
    /\ positions[heap[sale].ticker] = <<pre.lots[3].ref>>

(***************************************************************************)
(* FifoCalculator.calculate(transactions, tax_year), called twice in       *)
(* succession on the same list of transaction objects.  One action per     *)
(* iteration of the loop of lines 111-128.                                 *)
(***************************************************************************)
MaxBatch == 3

CalcTransactions ==
    {BuyTransaction(d, "AAA", Dec(10), Dec(100), Dec(2)) :
        d \in {20211, 20212, 20221}}
    \cup {BuyTransaction(20211, "BBB", Dec(10), Dec(100), NoneDec)}
    \cup {SellTransaction(d, "AAA", Dec(q), Dec(10), Dec(1)) :
            d \in {20212, 20221, 20222}, q \in {3, 15}}
    \cup {SellTransaction(20222, "AAA", Dec(7), Dec(10), Dec(1))}
    \cup {SellTransaction(20212, "BBB", Dec(3), Dec(10), NoneDec)}
    \cup {Transaction("DIVIDEND", 20212, "AAA", Dec(10), Dec(5), NoneDec)}
    \cup {BuyTransaction(20211, "AAA", Zero, Dec(100), Dec(2)),
          SellTransaction(20222, "AAA", Dec(3), NoneDec, Dec(1))}

Batches == UNION {[1..n -> CalcTransactions] : n \in 0..MaxBatch}

TaxYears == {{}, {2022}}

Init ==
    /\ heap \in Batches
    /\ tax_year \in TaxYears
    /\ positions = EmptyPortfolio
    /\ LedgerIdle
    /\ pc = "start"
    /\ sorted_transactions = <<>>
    /\ idx = 0
    /\ matches = <<>>
    /\ issues = <<>>
    /\ stats = NoStats
    /\ run = 1
    /\ first = NoResult
    /\ DividendIdle

\* lines 90-93: validation failed, return FifoCalculationResult(issues=issues)
CalculateInvalid ==
    /\ pc = "start"
    /\ FifoValidate(heap) # <<>>
    /\ issues' = FifoValidate(heap)
    /\ pc' = "done"
    /\ UNCHANGED <<heap, positions, tax_year, sorted_transactions, idx, matches,
                   stats, run, first>>
    /\ UNCHANGED ledgerVars
    /\ UNCHANGED dividendVars

\* lines 90-108: validation passed; statistics, a fresh Portfolio, the sort
CalculateStart ==
    /\ pc = "start"
    /\ FifoValidate(heap) = <<>>
    /\ issues' = <<>>
    /\ stats' = [buy_count |-> 0, sell_count |-> 0, fifo_match_count |-> 0]
    /\ positions' = EmptyPortfolio
    /\ matches' = <<>>
    /\ sorted_transactions' = SortedTransactions(heap)
    /\ idx' = 1
    /\ pc' = "loop"
    /\ UNCHANGED <<heap, tax_year, run, first>>
    /\ UNCHANGED ledgerVars
    /\ UNCHANGED dividendVars

InLoop == pc = "loop" /\ idx <= Len(sorted_transactions)

Current == heap[sorted_transactions[idx]]

\* lines 112-114: a Buy goes to the portfolio
LoopBuy ==
    /\ InLoop
    /\ Current.type = "BUY"
    /\ positions' = AddTransaction(positions, sorted_transactions[idx], heap)
    /\ stats' = [stats EXCEPT !.buy_count = @ + 1]
    /\ idx' = idx + 1
    /\ UNCHANGED <<heap, tax_year, pc, sorted_transactions, matches, issues,
                   run, first>>
    /\ UNCHANGED ledgerVars
    /\ UNCHANGED dividendVars

\* lines 116-119: a Sell outside the tax year is skipped
LoopSellSkipped ==
    /\ InLoop
    /\ Current.type = "SELL"
    /\ OutsideTaxYear(tax_year, Current)
    /\ idx' = idx + 1
    /\ UNCHANGED <<heap, positions, tax_year, pc, sorted_transactions, matches,
                   issues, stats, run, first>>
    /\ UNCHANGED ledgerVars
    /\ UNCHANGED dividendVars

\* lines 121-126 with line 126 adding 1 instead of len(sale_matches)
LoopSellCountsOneMatch ==
    /\ pc = "loop" /\ idx <= Len(sorted_transactions)
    /\ heap[sorted_transactions[idx]].type = "SELL"
    /\ ~OutsideTaxYear(tax_year, heap[sorted_transactions[idx]])
    /\ LET r == ProcessSale(heap, positions, sorted_transactions[idx])
       IN  /\ ~r.raised
           /\ heap' = r.heap
           /\ positions' = r.positions
           /\ matches' = matches \o r.results
           /\ stats' = [stats EXCEPT !.sell_count = @ + 1,
                                     !.fifo_match_count = @ + 1]
    /\ idx' = idx + 1
    /\ UNCHANGED <<tax_year, pc, sorted_transactions, issues, run, first>>
    /\ UNCHANGED ledgerVars
    /\ UNCHANGED dividendVars

\* lines 121-126: process_sale returned
LoopSell ==
    /\ InLoop
    /\ Current.type = "SELL"
    /\ ~OutsideTaxYear(tax_year, Current)
    /\ LET r == ProcessSale(heap, positions, sorted_transactions[idx])
       IN  /\ ~r.raised
           /\ heap' = r.heap
           /\ positions' = r.positions
           /\ matches' = matches \o r.results
           /\ stats' = [stats EXCEPT !.sell_count = @ + 1,
                                     !.fifo_match_count = @ + Len(r.results)]
    /\ idx' = idx + 1
    /\ UNCHANGED <<tax_year, pc, sorted_transactions, issues, run, first>>
    /\ UNCHANGED ledgerVars
    /\ UNCHANGED dividendVars

\* lines 121-128 without the except clause: the ValueError leaves calculate
LoopSellRaisedPropagates ==
    /\ pc = "loop" /\ idx <= Len(sorted_transactions)
    /\ heap[sorted_transactions[idx]].type = "SELL"
    /\ ~OutsideTaxYear(tax_year, heap[sorted_transactions[idx]])
    /\ ProcessSale(heap, positions, sorted_transactions[idx]).raised
    /\ pc' = "done"
    /\ UNCHANGED <<heap, positions, tax_year, sorted_transactions, idx, matches,
                   issues, stats, run, first>>
    /\ UNCHANGED ledgerVars
    /\ UNCHANGED dividendVars

\* lines 121-128: process_sale raised ValueError, which is caught
LoopSellRaised ==
    /\ InLoop
    /\ Current.type = "SELL"
    /\ ~OutsideTaxYear(tax_year, Current)
    /\ LET r == ProcessSale(heap, positions, sorted_transactions[idx])
       IN  /\ r.raised
           /\ issues' = Append(issues, SaleIssue(Current, r))
    /\ idx' = idx + 1
    /\ UNCHANGED <<heap, positions, tax_year, pc, sorted_transactions, matches,
                   stats, run, first>>
    /\ UNCHANGED ledgerVars
    /\ UNCHANGED dividendVars

\* lines 111-116: neither a Buy nor a Sell (a Dividend): nothing to do
LoopOther ==
    /\ InLoop
    /\ Current.type \notin {"BUY", "SELL"}
    /\ idx' = idx + 1
    /\ UNCHANGED <<heap, positions, tax_year, pc, sorted_transactions, matches,
                   issues, stats, run, first>>
    /\ UNCHANGED ledgerVars
    /\ UNCHANGED dividendVars

\* lines 130-138: the loop is over, the result is returned
CalculateReturn ==
    /\ pc = "loop"
    /\ idx > Len(sorted_transactions)
    /\ pc' = "done"
    /\ UNCHANGED <<heap, positions, tax_year, sorted_transactions, idx, matches,
                   issues, stats, run, first>>
    /\ UNCHANGED ledgerVars
    /\ UNCHANGED dividendVars

\* what calculate returned (at pc = "done")
Returned == FifoCalculationResult(matches, positions, stats, issues)

\* the caller calls calculate a second time on the same transaction objects
CalculateAgain ==
    /\ pc = "done"
    /\ run = 1
    /\ first' = Returned
    /\ run' = 2
    /\ pc' = "start"
    /\ positions' = EmptyPortfolio
    /\ sorted_transactions' = <<>>
    /\ idx' = 0
    /\ matches' = <<>>
    /\ issues' = <<>>
    /\ stats' = NoStats
    /\ UNCHANGED <<heap, tax_year>>
    /\ UNCHANGED ledgerVars
    /\ UNCHANGED dividendVars

Next ==
    \/ CalculateInvalid
    \/ CalculateStart
    \/ LoopBuy
    \/ LoopSellSkipped
    \/ LoopSell
    \/ LoopSellRaised
    \/ LoopOther
    \/ CalculateReturn
    \/ CalculateAgain

Spec == Init /\ [][Next]_vars

(***************************************************************************)
(* Properties of FifoCalculator.calculate (Spec).  A reference is the      *)
(* index of the transaction in the input batch.                            *)
(***************************************************************************)
EqualDatedInOrder(purchases) ==
    \A i \in 1..Len(purchases) : \A j \in 1..Len(purchases) :
        (i < j /\ heap[purchases[i]].date = heap[purchases[j]].date)
            => purchases[i] < purchases[j]

ConsumedInOrder(ms) ==
    \A i \in 1..Len(ms) : \A j \in 1..Len(ms) :
        (i < j /\ ms[i].ticker = ms[j].ticker /\ ms[i].buy_date = ms[j].buy_date)
            => ms[i].buy_transaction <= ms[j].buy_transaction

\* C4: buys of one ticker with identical dates stay in every position in the
\* order of the input batch (the order of their insertion), and the matches
\* consume them in that order.
C4_StableTies ==
    /\ \A t \in DOMAIN positions : EqualDatedInOrder(positions[t])
    /\ ConsumedInOrder(matches)
    /\ ConsumedInOrder(results)

\* a finished run in which a sale has consumed two buys of one date that
\* follow the sale in the input batch
C4_Witness ==
    /\ pc = "done"
    /\ \E i \in 1..Len(matches) : \E j \in 1..Len(matches) :
          /\ i < j
          /\ matches[i].buy_date = matches[j].buy_date
          /\ matches[i].buy_transaction < matches[j].buy_transaction
          /\ matches[i].sell_transaction = matches[j].sell_transaction
          /\ matches[i].sell_transaction < matches[i].buy_transaction

\* the sale the loop stands at cannot be covered by the portfolio
SaleFails(tx) ==
    \/ tx.ticker \notin DOMAIN positions
    \/ ExactSumBelow(LotQuantities(Snapshot(positions[tx.ticker], heap)),
                     tx.quantity)

AtSale ==
    /\ InLoop
    /\ Current.type = "SELL"
    /\ ~OutsideTaxYear(tax_year, Current)

C6_Step ==
    /\ (AtSale /\ SaleFails(Current)) =>
          /\ pc' = "loop"
          /\ idx' = idx + 1
          /\ Len(issues') = Len(issues) + 1
          /\ SubSeq(issues', 1, Len(issues)) = issues
          /\ issues'[Len(issues')].ticker = Current.ticker
          /\ issues'[Len(issues')].quantity = Current.quantity
          /\ matches' = matches
          /\ positions' = positions
    /\ (InLoop /\ issues # <<>> /\ Current.type = "BUY") =>
          /\ idx' = idx + 1
          /\ \E k \in 1..Len(positions'[Current.ticker]) :
                positions'[Current.ticker][k] = sorted_transactions[idx]
    /\ (AtSale /\ issues # <<>> /\ ~SaleFails(Current)) =>
          /\ idx' = idx + 1
          /\ issues' = issues
          /\ Len(matches') > Len(matches)
          /\ SubSeq(matches', 1, Len(matches)) = matches
          /\ \A k \in (Len(matches) + 1)..Len(matches') :
                matches'[k].sell_transaction = sorted_transactions[idx]
    /\ (pc = "loop" /\ pc' = "done") =>
          /\ idx > Len(sorted_transactions)
          /\ matches' = matches
          /\ issues' = issues

\* C6: a sale that cannot be covered adds exactly one issue (for that sale)
\* and no match, and the loop goes on: every later Buy enters the portfolio,
\* every later sale that can be covered adds its matches, and calculate
\* returns only after the last transaction of the sorted batch.
C6_SaleErrorCaptured == [][C6_Step]_vars

\* a finished run with the issue of a failed sale and the matches of a sale
\* that follows it in the sorted batch
C6_Witness ==
    /\ pc = "done"
    /\ issues # <<>>
    /\ \E i \in 1..Len(sorted_transactions) : \E j \in 1..Len(sorted_transactions) :
          /\ i < j
          /\ heap[sorted_transactions[i]].type = "SELL"
          /\ ~OutsideTaxYear(tax_year, heap[sorted_transactions[i]])
          /\ \A k \in 1..Len(matches) :
                matches[k].sell_transaction # sorted_transactions[i]
          /\ \E k \in 1..Len(matches) :
                matches[k].sell_transaction = sorted_transactions[j]

\* C10: the second of two successive calls of calculate on the same list of
\* transaction objects returns the matches, issues and statistics of the first.
C10_Idempotent ==
    (run = 2 /\ pc = "done") =>
        /\ matches = first.matches
        /\ issues = first.issues
        /\ stats = first.stats

\* the condition of FifoCalculator.validate that the message msg names
TransactionDefect(tx, msg) ==
    \/ msg = "has no ticker" /\ tx.ticker = ""
    \/ msg = "has invalid quantity" /\ tx.quantity.c <= 0
    \/ msg = "has no exchange rate for currency"
          /\ tx.exchange_rate = NoneDec /\ tx.currency # "PLN"
    \/ msg = "has no PLN value" /\ tx.total_value_pln = NoneDec

TransactionMessages ==
    {"has no ticker", "has invalid quantity",
     "has no exchange rate for currency", "has no PLN value"}

\* the (transaction, message) pairs validate has to report for the batch
TransactionDefects ==
    {d \in (1..Len(heap)) \X TransactionMessages :
        TransactionDefect(heap[d[1]], d[2])}

BatchRejected == heap = <<>> \/ TransactionDefects # {}

\* C12: for a batch that is empty or holds a transaction with an empty ticker,
\* a quantity <= 0, no exchange rate for a non-PLN currency or no PLN value,
\* calculate goes from its call straight to its return: at no time is a Buy in
\* the ledger or a match made, and it returns exactly the validation issues
\* (one per violated condition of each transaction of the whole batch), no
\* matches, an empty ledger and no statistics.
C12_ValidatedBeforeComputation ==
    BatchRejected =>
        /\ pc \in {"start", "done"}
        /\ positions = EmptyPortfolio
        /\ matches = <<>>
        /\ stats = NoStats
        /\ pc = "done" =>
              /\ issues # <<>>
              /\ heap = <<>> =>
                    /\ Len(issues) = 1
                    /\ issues[1].msg = "No transactions to process"
              /\ heap # <<>> =>
                    /\ Len(issues) = Cardinality(TransactionDefects)
                    /\ \A d \in TransactionDefects :
                          \E k \in 1..Len(issues) :
                              /\ issues[k].index = d[1] - 1
                              /\ issues[k].msg = d[2]

\* calculate has returned on a Buy and a Sell it could match followed by a
\* transaction with a defect
C12_Witness ==
    /\ pc = "done"
    /\ Len(heap) = 3
    /\ heap[1].type = "BUY" /\ heap[2].type = "SELL"
    /\ heap[1].ticker = heap[2].ticker
    /\ heap[1].date < heap[2].date
    /\ DLe(heap[2].quantity, heap[1].quantity)
    /\ \A d \in TransactionDefects : d[1] = 3
    /\ Len(issues) = 1
    /\ issues[1].index = 2
    /\ matches = <<>>

\* the orders in which a caller can hand over the transactions of the batch
InputOrders ==
    {p \in [1..Len(heap) -> 1..Len(heap)] :
        \A i \in 1..Len(heap) : \A j \in 1..Len(heap) : p[i] = p[j] => i = j}

Permuted(p) == [i \in 1..Len(heap) |-> heap[p[i]]]

\* what a run returned, without the identities of the objects: the matches
\* and the issues as sets (and their numbers), the ledger as the dates,
\* remaining quantities and values of each position's lots
MatchValues(r) ==
    {[ticker |-> r.result.matches[k].ticker,
      sell_date |-> r.result.matches[k].sell_date,
      buy_date |-> r.result.matches[k].buy_date,
      used_quantity |-> r.result.matches[k].used_quantity,
      income_pln |-> r.result.matches[k].income_pln,
      cost_pln |-> r.result.matches[k].cost_pln,
      profit_loss_pln |-> r.result.matches[k].profit_loss_pln] :
        k \in 1..Len(r.result.matches)}

LedgerValues(r) ==
    [t \in DOMAIN r.result.portfolio |->
        [k \in 1..Len(r.result.portfolio[t]) |->
            LET lot == r.heap[r.result.portfolio[t][k]]
            IN  [date |-> lot.date, quantity |-> lot.quantity,
                 total_value_pln |-> lot.total_value_pln,
                 fees_pln |-> lot.fees_pln]]]

SameOutcome(r1, r2) ==
    /\ MatchValues(r1) = MatchValues(r2)
    /\ Len(r1.result.matches) = Len(r2.result.matches)
    /\ Elements(r1.result.issues) = Elements(r2.result.issues)
    /\ Len(r1.result.issues) = Len(r2.result.issues)
    /\ LedgerValues(r1) = LedgerValues(r2)

\* C15: for a batch that passes validation, calculate returns the same
\* matches, the same issues and the same final ledger for every order of the
\* input list.
C15_OrderIndependent ==
    (pc = "start" /\ run = 1 /\ ~BatchRejected) =>
        \A p \in InputOrders :
            SameOutcome(FifoCalculate(heap, tax_year),
                        FifoCalculate(Permuted(p), tax_year))

\* C19: in every returned result that passed validation, buy_count is the
\* number of Buys of the batch, fifo_match_count the length of matches,
\* sell_count the number of sales that have matches, and sell_count plus the
\* number of issues the number of Sells of the tax year (of all Sells without
\* a tax year).
C19_StatsAgree ==
    (pc = "done" /\ stats # NoStats) =>
        /\ stats.buy_count
              = Cardinality({r \in 1..Len(heap) : heap[r].type = "BUY"})
        /\ stats.fifo_match_count = Len(matches)
        /\ stats.sell_count
              = Cardinality({matches[k].sell_transaction : k \in 1..Len(matches)})
        /\ stats.sell_count + Len(issues)
              = Cardinality({r \in 1..Len(heap) :
                                /\ heap[r].type = "SELL"
                                /\ ~OutsideTaxYear(tax_year, heap[r])})

\* a returned result with two Buys and one sale, matched against both
C19_Witness ==
    /\ pc = "done"
    /\ stats # NoStats
    /\ stats.buy_count = 2
    /\ stats.sell_count = 1
    /\ stats.fifo_match_count = 2
    /\ Len(matches) = 2

\* the matches of ms against the Buy b, in output order
MatchesAgainst(ms, b) ==
    LET Against(m) == m.buy_transaction = b
    IN  SelectSeq(ms, Against)

RECURSIVE SumDec(_)
SumDec(ds) == IF ds = <<>> THEN Zero ELSE DAdd(ds[1], SumDec(Tail(ds)))

\* the Buy b is in the lot list of its position
InPosition(pos, h, b) ==
    /\ h[b].ticker \in DOMAIN pos
    /\ b \in Elements(pos[h[b].ticker])

\* the quantity the Buy b had when the k-th match of mb reached it, within
\* the first run: its quantity now and the shares taken from it since by the
\* matches that cut it (every match but the one that used it up)
RemainingBefore(mb, k, b, pos, h) ==
    LET last == IF InPosition(pos, h, b) THEN Len(mb) ELSE Len(mb) - 1
    IN  DAdd(h[b].quantity,
             SumDec([j \in 1..(last - k + 1) |-> mb[k + j - 1].used_quantity]))

\* purchase_cost and purchase_fees of every match against the Buy b
PurchaseParts(mb, b, pos, h) ==
    LET ratio(k) == DDiv(mb[k].used_quantity, RemainingBefore(mb, k, b, pos, h))
        Part(i)  == IF i % 2 = 1
                    THEN DMul(h[b].total_value_pln, ratio((i + 1) \div 2))
                    ELSE DMul(OrZero(h[b].fees_pln), ratio(i \div 2))
    IN  [i \in 1..(2 * Len(mb)) |-> Part(i)]

\* the exact sum of the decimals of as is at most that of bs
ExactSumAtMost(as, bs) ==
    LET e == MinExponent(as \o bs \o <<Zero>>)
    IN  SumScaled(as, e) <= SumScaled(bs, e)

\* C23: within one run on fresh transactions, for every Buy that sales have
\* matched, the purchase-cost parts of all its matches (total_value_pln *
\* ratio and fees_pln * ratio) sum to no more than its total_value_pln plus
\* fees_pln, and to exactly that once the lot is used up.
C23_CostBasisConserved ==
    run = 1 =>
        \A b \in 1..Len(heap) :
            LET mb    == MatchesAgainst(matches, b)
                parts == PurchaseParts(mb, b, positions, heap)
                whole == <<heap[b].total_value_pln, OrZero(heap[b].fees_pln)>>
            IN  (heap[b].type = "BUY" /\ mb # <<>>) =>
                    /\ ExactSumAtMost(parts, whole)
                    /\ ~InPosition(positions, heap, b) =>
                           ExactSumsEqual(parts, whole)

\* the matches of ms that belong to the Sell s, in output order
MatchesOfSale(ms, s) ==
    LET OfSale(m) == m.sell_transaction = s
    IN  SelectSeq(ms, OfSale)

\* C24: for a batch that passes validation and every Sell of it dated in the
\* tax year, calculate with the tax year returns for that Sell the same
\* matches (lots, used quantities, income and cost) as calculate without a
\* tax year returns for it.
C24_TaxYearKeepsMatching ==
    (pc = "start" /\ run = 1 /\ tax_year # {} /\ ~BatchRejected) =>
        \A s \in 1..Len(heap) :
            (heap[s].type = "SELL" /\ YearOf(heap[s].date) \in tax_year) =>
                MatchesOfSale(FifoCalculate(heap, tax_year).result.matches, s)
                    = MatchesOfSale(FifoCalculate(heap, {}).result.matches, s)

\* the present quantities of the Buys of the batch that have the ticker of
\* the Sell tx and are not dated after it
EarlierBuyQuantities(tx) ==
    LET Earlier(b) == /\ b.type = "BUY"
                      /\ b.ticker = tx.ticker
                      /\ b.date <= tx.date
    IN  LotQuantities(SelectSeq(heap, Earlier))

\* a Sell of the tax year that the Buys dated up to its date cannot cover
\* adds an issue for its ticker and no match
C26_Step ==
    (AtSale /\ ExactSumBelow(EarlierBuyQuantities(Current), Current.quantity)) =>
        /\ matches' = matches
        /\ Len(issues') = Len(issues) + 1
        /\ issues'[Len(issues')].ticker = Current.ticker
        /\ issues'[Len(issues')].quantity = Current.quantity

\* C26: every match of a run has buy_date <= sell_date, and a Sell that only
\* Buys dated after it could cover fails with the issue of process_sale and
\* gets no match.
C26_BuyNotAfterSale ==
    /\ [](\A k \in 1..Len(matches) : matches[k].buy_date <= matches[k].sell_date)
    /\ [][C26_Step]_vars

\* a finished run where a Sell has an issue and no match although a Buy of
\* its ticker dated after it holds enough shares, and a later Sell is matched
\* against that Buy
C26_Witness ==
    /\ pc = "done"
    /\ Len(issues) = 1
    /\ Len(matches) = 1
    /\ \E s \in 1..Len(heap) :
          /\ heap[s].type = "SELL"
          /\ matches[1].sell_transaction # s
          /\ issues[1].ticker = heap[s].ticker
          /\ heap[matches[1].buy_transaction].date > heap[s].date
          /\ DLe(heap[s].quantity, heap[matches[1].buy_transaction].quantity)
          /\ matches[1].ticker = heap[s].ticker

\* the matches of ms for the ticker t, in output order
MatchesOfTicker(ms, t) ==
    LET OfTicker(m) == m.ticker = t
    IN  SelectSeq(ms, OfTicker)

\* a sale that is matched starts at the head of its position, and that is
\* the lot of the last earlier match of the ticker if that lot is still open
C27_Step ==
    (AtSale /\ matches' # matches) =>
        LET t       == Current.ticker
            before  == MatchesOfTicker(matches, t)
            next    == matches'[Len(matches) + 1]
        IN  /\ next.sell_transaction = sorted_transactions[idx]
            /\ next.buy_transaction = positions[t][1]
            /\ (before # <<>>
                 /\ InPosition(positions, heap, before[Len(before)].buy_transaction))
                => next.buy_transaction = before[Len(before)].buy_transaction

DividendBatchTransactions ==
    {DividendTransaction(d, "AAA", Dec(10), Dec(1000), "US", Dec(250)) :
        d \in {20212, 20221}}
    \cup {DividendTransaction(20221, "AAA", Dec(10), Dec(100), "US", NoneDec),
          DividendTransaction(20221, "BBB", Dec(5), Dec(100), "DE", Dec(15)),
          DividendTransaction(20222, "BBB", Dec(5), Dec(200), "DE", NoneDec),
          DividendTransaction(20221, "CCC", Dec(1), Dec(100), NoneStr, Dec(15)),
          DividendTransaction(20221, "CCC", Dec(1), Dec(100), "", NoneDec),
          DividendTransaction(20221, "CCC", Dec(1), Dec(100), "Unknown", NoneDec),
          DividendTransaction(20221, "AAA", Zero, Dec(100), "US", NoneDec),
          DividendTransaction(20221, "", Dec(1), NoneDec, NoneStr, NoneDec),
          [DividendTransaction(20221, "AAA", Dec(1), Dec(100), "US", NoneDec)
              EXCEPT !.exchange_rate = NoneDec],
          [DividendTransaction(20221, "AAA", Dec(1), Dec(100), "PL", NoneDec)
              EXCEPT !.exchange_rate = NoneDec, !.currency = "PLN"],
          BuyTransaction(20211, "AAA", Dec(10), Dec(100), Dec(2))}

DividendBatches ==
    UNION {[1..n -> DividendBatchTransactions] : n \in 0..MaxBatch}

DividendInit ==
    /\ heap \in DividendBatches
    /\ tax_year \in TaxYears
    /\ positions = EmptyPortfolio
    /\ LedgerIdle
    /\ pc = "start"
    /\ sorted_transactions = <<>>
    /\ idx = 0
    /\ matches = <<>>
    /\ issues = <<>>
    /\ stats = NoStats
    /\ run = 1
    /\ first = DividendCalculationResult(<<>>, NoStats, <<>>)
    /\ DividendIdle

fifoVars == <<positions, sorted_transactions, matches>>

\* lines 113-126: filter, validate, and return at once if validate reported
DividendInvalid ==
    /\ pc = "start"
    /\ LET dts == DividendsOf(heap, tax_year)
       IN  /\ DividendValidate(dts, heap) # <<>>
           /\ dividend_transactions' = dts
           /\ issues' = ReturnedIssues(DividendValidate(dts, heap))
    /\ pc' = "done"
    /\ UNCHANGED <<heap, tax_year, idx, stats, run, first, summaries>>
    /\ UNCHANGED fifoVars
    /\ UNCHANGED ledgerVars

\* lines 113-139: filter, validate, the statistics and the empty dict
DividendStart ==
    /\ pc = "start"
    /\ LET dts == DividendsOf(heap, tax_year)
       IN  /\ DividendValidate(dts, heap) = <<>>
           /\ dividend_transactions' = dts
           /\ stats' = [NoDividendStats EXCEPT !.dividend_count = Len(dts)]
    /\ issues' = <<>>
    /\ summaries' = <<>>
    /\ idx' = 1
    /\ pc' = "fold"
    /\ UNCHANGED <<heap, tax_year, run, first>>
    /\ UNCHANGED fifoVars
    /\ UNCHANGED ledgerVars

\* lines 141-160: one dividend is added to the summary of its country and to
\* the run totals; after the last one the second loop starts
DividendFold ==
    /\ pc = "fold"
    /\ idx <= Len(dividend_transactions)
    /\ LET ref     == dividend_transactions[idx]
           tx      == heap[ref]
           country == CountryKey(tx)
           sums    == IF KeyIndex(summaries, country) = 0
                      THEN Append(summaries, DividendSummary(country))
                      ELSE summaries
           k       == KeyIndex(sums, country)
       IN  /\ summaries' = [sums EXCEPT ![k] = AddDividend(sums[k], ref, heap)]
           /\ stats' = [stats EXCEPT
                 !.total_dividend_pln =
                     IF tx.total_value_pln # NoneDec
                     THEN DAdd(@, tx.total_value_pln) ELSE @,
                 !.total_tax_paid_abroad_pln =
                     IF tx.withholding_tax_pln # NoneDec
                     THEN DAdd(@, tx.withholding_tax_pln) ELSE @]
    /\ idx' = IF idx = Len(dividend_transactions) THEN 1 ELSE idx + 1
    /\ pc' = IF idx = Len(dividend_transactions) THEN "finalize" ELSE "fold"
    /\ UNCHANGED <<heap, tax_year, issues, run, first, dividend_transactions>>
    /\ UNCHANGED fifoVars
    /\ UNCHANGED ledgerVars

\* the second loop with the floor of line 169 put on the run totals:
\* total_tax_to_pay = max(0, total_tax_due_poland - total_tax_paid_abroad_pln)
DividendFinalizeFloorsTotal ==
    /\ pc = "finalize"
    /\ idx <= Len(summaries)
    /\ LET due == TaxDuePoland(summaries[idx].total_dividend_pln)
           pay == TaxToPay(due, summaries[idx].tax_paid_abroad_pln)
           total_due == DAdd(stats.total_tax_due_poland, due)
       IN  /\ summaries' = [summaries EXCEPT ![idx].tax_due_poland = due,
                                             ![idx].tax_to_pay = pay]
           /\ stats' = [stats EXCEPT
                 !.total_tax_due_poland = total_due,
                 !.total_tax_to_pay =
                     TaxToPay(total_due, stats.total_tax_paid_abroad_pln)]
    /\ idx' = idx + 1
    /\ pc' = IF idx = Len(summaries) THEN "done" ELSE "finalize"
    /\ UNCHANGED <<heap, tax_year, issues, run, first, dividend_transactions>>
    /\ UNCHANGED fifoVars
    /\ UNCHANGED ledgerVars

\* lines 163-170: tax due and tax to pay of one country; after the last one
\* the result is returned (lines 173-179)
DividendFinalize ==
    /\ pc = "finalize"
    /\ idx <= Len(summaries)
    /\ LET due == TaxDuePoland(summaries[idx].total_dividend_pln)
           pay == TaxToPay(due, summaries[idx].tax_paid_abroad_pln)
       IN  /\ summaries' = [summaries EXCEPT ![idx].tax_due_poland = due,
                                             ![idx].tax_to_pay = pay]
           /\ stats' = [stats EXCEPT
                 !.total_tax_due_poland = DAdd(@, due),
                 !.total_tax_to_pay = DAdd(@, pay)]
    /\ idx' = idx + 1
    /\ pc' = IF idx = Len(summaries) THEN "done" ELSE "finalize"
    /\ UNCHANGED <<heap, tax_year, issues, run, first, dividend_transactions>>
    /\ UNCHANGED fifoVars
    /\ UNCHANGED ledgerVars

\* the caller calls calculate a second time on the same transaction objects
DividendAgain ==
    /\ pc = "done"
    /\ run = 1
    /\ first' = DividendCalculationResult(summaries, stats, issues)
    /\ run' = 2
    /\ pc' = "start"
    /\ idx' = 0
    /\ issues' = <<>>
    /\ stats' = NoStats
    /\ dividend_transactions' = <<>>
    /\ summaries' = <<>>
    /\ UNCHANGED <<heap, tax_year>>
    /\ UNCHANGED fifoVars
    /\ UNCHANGED ledgerVars

DividendNext ==
    \/ DividendInvalid
    \/ DividendStart
    \/ DividendFold
    \/ DividendFinalize
    \/ DividendAgain

SpecDividend == DividendInit /\ [][DividendNext]_vars

(***************************************************************************)
(* Properties of DividendCalculator.calculate (SpecDividend).              *)
(***************************************************************************)

\* the dividends of the batch that calculate is to process: the Dividend
\* objects, of the tax year if one is given
Processed ==
    {r \in 1..Len(heap) :
        /\ heap[r].type = "DIVIDEND"
        /\ tax_year = {} \/ YearOf(heap[r].date) \in tax_year}

Unresolved(tx) == tx.country = NoneStr \/ tx.country = ""

\* the processed dividends that belong under the country key
OfCountry(country) ==
    {r \in Processed :
        (IF Unresolved(heap[r]) THEN "Unknown" ELSE heap[r].country) = country}

\* a * b = p, exactly
ExactProductIs(a, b, prod) ==
    LET e == Min2(a.e + b.e, prod.e)
    IN  a.c * b.c * Pow10(a.e + b.e - e) = Scaled(prod, e)

\* C7: in every summary of a returned result, tax_due_poland is
\* total_dividend_pln * 0.19 and tax_to_pay is max(0, tax_due_poland -
\* tax_paid_abroad_pln), so never negative; a total of 1000 with 250 paid
\* abroad has 190 due and 0 to pay.
C7_TaxToPayFloored ==
    pc = "done" =>
        \A k \in 1..Len(summaries) :
            LET su == summaries[k]
            IN  /\ ExactProductIs(su.total_dividend_pln, DecE(19, -2),
                                  su.tax_due_poland)
                /\ su.tax_to_pay.c >= 0
                /\ IF DLt(su.tax_due_poland, su.tax_paid_abroad_pln)
                   THEN su.tax_to_pay = Zero
                   ELSE ExactSumIs(<<su.tax_paid_abroad_pln, su.tax_to_pay>>,
                                   su.tax_due_poland)
                /\ (su.total_dividend_pln = Dec(1000)
                        /\ su.tax_paid_abroad_pln = Dec(250))
                   => su.tax_due_poland = Dec(190) /\ su.tax_to_pay = Zero

\* a returned summary of total 1000 with 250 paid abroad, beside a summary
\* with tax left to pay
C7_Witness ==
    /\ pc = "done"
    /\ \E k \in 1..Len(summaries) :
          /\ summaries[k].total_dividend_pln = Dec(1000)
          /\ summaries[k].tax_paid_abroad_pln = Dec(250)
          /\ summaries[k].tax_to_pay = Zero
    /\ \E k \in 1..Len(summaries) : DLt(Zero, summaries[k].tax_to_pay)

\* C8: in a returned result every country key occurs once; its
\* total_dividend_pln is the sum of total_value_pln, and its
\* tax_paid_abroad_pln the sum of withholding_tax_pln (zero where absent), over
\* exactly the processed dividends of that country, which are its transactions
\* list; and when validation passed every processed dividend is in exactly one
\* summary.
C8_PerCountrySums ==
    pc = "done" =>
        /\ \A k \in 1..Len(summaries) :
              LET su == summaries[k]
                  in == OfCountry(su.country)
              IN  /\ \A j \in 1..Len(summaries) :
                        summaries[j].country = su.country => j = k
                  /\ Elements(su.transactions) = in
                  /\ Len(su.transactions) = Cardinality(in)
                  /\ ExactSumIs([r \in 1..Len(heap) |->
                                    IF r \in in THEN heap[r].total_value_pln
                                    ELSE Zero],
                                su.total_dividend_pln)
                  /\ ExactSumIs([r \in 1..Len(heap) |->
                                    IF r \in in
                                    THEN OrZero(heap[r].withholding_tax_pln)
                                    ELSE Zero],
                                su.tax_paid_abroad_pln)
        /\ issues = <<>> =>
              \A r \in Processed :
                  Cardinality({k \in 1..Len(summaries) :
                                  r \in Elements(summaries[k].transactions)}) = 1

\* a returned result with two countries, one of them with two dividends of
\* which one has no withholding tax
C8_Witness ==
    /\ pc = "done"
    /\ Len(summaries) = 2
    /\ \E k \in 1..Len(summaries) :
          /\ Len(summaries[k].transactions) = 2
          /\ \E i \in 1..2 :
                heap[summaries[k].transactions[i]].withholding_tax_pln = NoneDec
          /\ \E i \in 1..2 :
                heap[summaries[k].transactions[i]].withholding_tax_pln # NoneDec

\* a dividend with nothing wrong but, possibly, its country
ValidButCountry(tx) ==
    /\ tx.ticker # ""
    /\ DLt(Zero, tx.quantity)
    /\ tx.exchange_rate # NoneDec \/ tx.currency = "PLN"
    /\ tx.total_value_pln # NoneDec

\* C9: when calculate has returned, every processed dividend whose country is
\* unresolved (None or empty) is in the transactions of the summary "Unknown",
\* whose total includes its amount (stated for batches whose processed
\* dividends have no other defect).
C9_UnknownBucket ==
    (pc = "done" /\ \A r \in Processed : ValidButCountry(heap[r])) =>
        \A r \in Processed :
            Unresolved(heap[r]) =>
                \E k \in 1..Len(summaries) :
                    /\ summaries[k].country = "Unknown"
                    /\ r \in Elements(summaries[k].transactions)
                    /\ DLe(heap[r].total_value_pln,
                           summaries[k].total_dividend_pln)

\* C10, the dividend half: the second of two successive calls of
\* DividendCalculator.calculate on the same transaction objects returns the
\* summaries, issues and statistics of the first.
C10_DividendIdempotent ==
    (run = 2 /\ pc = "done") =>
        DividendCalculationResult(summaries, stats, issues) = first

\* the condition of DividendCalculator.validate that the message msg names
DividendDefect(tx, msg) ==
    \/ msg = "Dividend has no ticker" /\ tx.ticker = ""
    \/ msg = "Dividend has invalid quantity" /\ tx.quantity.c <= 0
    \/ msg = "Dividend has no exchange rate for currency"
          /\ tx.exchange_rate = NoneDec /\ tx.currency # "PLN"
    \/ msg = "Dividend has no PLN value" /\ tx.total_value_pln = NoneDec
    \/ msg = "Dividend has no country information"
          /\ tx.country \in {NoneStr, ""}

DividendMessages ==
    {"Dividend has no ticker", "Dividend has invalid quantity",
     "Dividend has no exchange rate for currency", "Dividend has no PLN value",
     "Dividend has no country information"}

\* the (position, message) pairs validate has to report for the list of
\* dividends it was given
DividendDefects ==
    {d \in (1..Len(dividend_transactions)) \X DividendMessages :
        DividendDefect(heap[dividend_transactions[d[1]]], d[2])}

\* C16: once validate has returned on a non-empty list of dividends, the
\* issues are exactly one per violated condition (empty ticker, quantity <= 0,
\* no exchange rate for a currency other than PLN, no PLN value, no or empty
\* country) of each dividend of the whole list, so none exactly when no
\* dividend violates a condition.
C16_ValidateReportsAll ==
    (pc # "start" /\ dividend_transactions # <<>>) =>
        /\ Len(issues) = Cardinality(DividendDefects)
        /\ \A d \in DividendDefects :
              \E k \in 1..Len(issues) :
                  /\ issues[k].index = d[1] - 1
                  /\ issues[k].msg = d[2]
        /\ issues = <<>> <=> DividendDefects = {}

\* validate has reported three issues of the first dividend and an issue of
\* a later one
C16_Witness ==
    /\ pc = "done"
    /\ Cardinality({k \in 1..Len(issues) : issues[k].index = 0}) = 3
    /\ \E k \in 1..Len(issues) : issues[k].index > 0

\* C13: when calculate has returned on a batch that is not empty and holds no
\* dividend to process (no Dividend at all, or none of the requested tax year),
\* the summaries and the issues list are both empty.
C13_NoDividendsBenign ==
    (pc = "done" /\ heap # <<>> /\ Processed = {}) =>
        /\ summaries = <<>>
        /\ issues = <<>>

\* the values of one field of the summaries, in the order of the summaries
SummaryField(field) == [k \in 1..Len(summaries) |-> summaries[k][field]]

\* C30: in a returned result that passed validation, total_dividend_pln,
\* total_tax_paid_abroad_pln, total_tax_due_poland and total_tax_to_pay of
\* the statistics are the exact sums of total_dividend_pln,
\* tax_paid_abroad_pln, tax_due_poland and tax_to_pay over the summaries,
\* dividend_count is the number of processed dividends, and total_tax_to_pay
\* is at least max(0, total_tax_due_poland - total_tax_paid_abroad_pln).
C30_TotalsAreSums ==
    (pc = "done" /\ issues = <<>>) =>
        /\ ExactSumIs(SummaryField("total_dividend_pln") \o <<Zero>>,
                      stats.total_dividend_pln)
        /\ ExactSumIs(SummaryField("tax_paid_abroad_pln") \o <<Zero>>,
                      stats.total_tax_paid_abroad_pln)
        /\ ExactSumIs(SummaryField("tax_due_poland") \o <<Zero>>,
                      stats.total_tax_due_poland)
        /\ ExactSumIs(SummaryField("tax_to_pay") \o <<Zero>>,
                      stats.total_tax_to_pay)
        /\ stats.dividend_count = Cardinality(Processed)
        /\ stats.total_tax_to_pay.c >= 0
        /\ ExactSumAtMost(<<stats.total_tax_due_poland>>,
                          <<stats.total_tax_to_pay,
                            stats.total_tax_paid_abroad_pln>>)

\* a returned result of two countries: in one the tax paid abroad exceeds the
\* tax due, the other has tax left to pay, and the total to pay is more than
\* the difference of the totals
C30_Witness ==
    /\ pc = "done"
    /\ issues = <<>>
    /\ Len(summaries) = 2
    /\ \E k \in 1..2 : DLt(summaries[k].tax_due_poland,
                           summaries[k].tax_paid_abroad_pln)
    /\ DLt(Zero, stats.total_tax_to_pay)
    /\ DLt(stats.total_tax_due_poland, stats.total_tax_paid_abroad_pln)

(***************************************************************************)
(* Agreement of the whole-function operators with the step actions: the    *)
(* result the loop of FifoCalculator.calculate will return from where it   *)
(* stands does not change while it runs, and is what it returns; a         *)
(* returned dividend result is DividendCalculate of the batch (which       *)
(* DividendCalculator.calculate does not modify).                          *)
(***************************************************************************)
RestOfLoop ==
    FifoLoop(heap, positions, sorted_transactions, idx, matches, issues, stats,
             tax_year)

RestOfLoopNext ==
    FifoLoop(heap', positions', sorted_transactions', idx', matches', issues',
             stats', tax_year')

FifoCalculateAgrees ==
    [][ /\ (pc = "start" /\ pc' = "loop") =>
              RestOfLoopNext = FifoCalculate(heap, tax_year)
        /\ (pc = "start" /\ pc' = "done") =>
              /\ FifoCalculationResult(matches', positions', stats', issues')
                    = FifoCalculate(heap, tax_year).result
              /\ heap' = FifoCalculate(heap, tax_year).heap
        /\ (pc = "loop" /\ pc' = "loop") => RestOfLoopNext = RestOfLoop
        /\ (pc = "loop" /\ pc' = "done") =>
              /\ RestOfLoop.result
                    = FifoCalculationResult(matches', positions', stats', issues')
              /\ RestOfLoop.heap = heap' ]_vars

DividendCalculateAgrees ==
    (pc = "done" /\ positions = EmptyPortfolio) =>
        DividendCalculationResult(summaries, stats, issues)
            = DividendCalculate(heap, tax_year)

(***************************************************************************)
(* main.calculation_mode, lines 148-149: the FIFO calculator and then the  *)
(* dividend calculator are run on one list of transaction objects, here    *)
(* with any tax year.  While the dividend calculator runs, `first` is what *)
(* the FIFO calculator returned, and positions and matches stay as it left *)
(* them.                                                                   *)
(***************************************************************************)
MainTransactions ==
    {BuyTransaction(20211, "AAA", Dec(10), Dec(100), Dec(2)),
     BuyTransaction(20221, "AAA", Dec(10), Dec(100), Dec(2)),
     SellTransaction(20212, "AAA", Dec(3), Dec(10), Dec(1)),
     SellTransaction(20222, "AAA", Dec(3), Dec(10), Dec(1)),
     SellTransaction(20222, "AAA", Dec(15), Dec(10), Dec(1)),
     DividendTransaction(20212, "AAA", Dec(10), Dec(1000), "US", Dec(250)),
     DividendTransaction(20221, "AAA", Dec(10), Dec(100), "US", NoneDec),
     DividendTransaction(20221, "BBB", Dec(5), Dec(100), "DE", Dec(15)),
     DividendTransaction(20221, "CCC", Dec(1), Dec(100), NoneStr, Dec(15)),
     DividendTransaction(20212, "AAA", Zero, Dec(100), "US", NoneDec),
     BuyTransaction(20211, "AAA", Zero, Dec(100), Dec(2)),
     SellTransaction(20222, "AAA", Dec(3), NoneDec, Dec(1))}

MainBatches == UNION {[1..n -> MainTransactions] : n \in 0..MaxBatch}

MainInit ==
    /\ heap \in MainBatches
    /\ tax_year \in TaxYears
    /\ positions = EmptyPortfolio
    /\ LedgerIdle
    /\ pc = "start"
    /\ sorted_transactions = <<>>
    /\ idx = 0
    /\ matches = <<>>
    /\ issues = <<>>
    /\ stats = NoStats
    /\ run = 1
    /\ first = NoResult
    /\ DividendIdle

\* line 149: fifo_calculator.calculate has returned fifo_result, and
\* dividend_calculator.calculate is called on the same list
CalculationModeDividends ==
    /\ pc = "done"
    /\ run = 1
    /\ first' = Returned
    /\ run' = 2
    /\ pc' = "start"
    /\ idx' = 0
    /\ issues' = <<>>
    /\ stats' = NoStats
    /\ UNCHANGED <<heap, tax_year>>
    /\ UNCHANGED fifoVars
    /\ UNCHANGED ledgerVars
    /\ UNCHANGED dividendVars

MainNext ==
    \/ run = 1 /\ CalculateInvalid
    \/ run = 1 /\ CalculateStart
    \/ run = 1 /\ LoopBuy
    \/ run = 1 /\ LoopSellSkipped
    \/ run = 1 /\ LoopSell
    \/ run = 1 /\ LoopSellRaised
    \/ run = 1 /\ LoopOther
    \/ run = 1 /\ CalculateReturn
    \/ CalculationModeDividends
    \/ run = 2 /\ DividendInvalid
    \/ run = 2 /\ DividendStart
    \/ run = 2 /\ DividendFold
    \/ run = 2 /\ DividendFinalize

SpecMain == MainInit /\ [][MainNext]_vars

(***************************************************************************)
(* Properties of the two calculators run on one batch (SpecMain).          *)
(***************************************************************************)
InTaxYear(tx) == tax_year = {} \/ YearOf(tx.date) \in tax_year

\* the FIFO calculator's loop stands at transaction tx
FifoAt(type) == run = 1 /\ InLoop /\ Current.type = type

BuysOfBatch == {r \in 1..Len(heap) : heap[r].type = "BUY"}

C11_FifoState ==
    /\ \A k \in 1..Len(matches) : InTaxYear(heap[matches[k].sell_transaction])
    /\ (run = 1 /\ pc = "done" /\ stats # NoStats) =>
          /\ stats.buy_count = Cardinality(BuysOfBatch)
          /\ \A r \in BuysOfBatch :
                \/ \E k \in 1..Len(positions[heap[r].ticker]) :
                      positions[heap[r].ticker][k] = r
                \/ \E k \in 1..Len(matches) : matches[k].buy_transaction = r

C11_FifoStep ==
    /\ (FifoAt("SELL") /\ ~InTaxYear(Current)) =>
          /\ matches' = matches
          /\ issues' = issues
          /\ positions' = positions
          /\ heap' = heap
          /\ stats' = stats
          /\ idx' = idx + 1
    /\ FifoAt("BUY") =>
          /\ \E k \in 1..Len(positions'[Current.ticker]) :
                positions'[Current.ticker][k] = sorted_transactions[idx]
          /\ stats'.buy_count = stats.buy_count + 1
          /\ idx' = idx + 1

C11_DividendState ==
    (run = 2 /\ pc = "done") =>
        /\ \A k \in 1..Len(summaries) :
              \A i \in 1..Len(summaries[k].transactions) :
                  LET tx == heap[summaries[k].transactions[i]]
                  IN  tx.type = "DIVIDEND" /\ InTaxYear(tx)
        /\ \A k \in 1..Len(issues) :
              \/ issues[k].msg = "No transactions to process"
              \/ /\ issues[k].index + 1 \in 1..Len(dividend_transactions)
                 /\ LET tx == heap[dividend_transactions[issues[k].index + 1]]
                    IN  /\ tx.type = "DIVIDEND"
                        /\ InTaxYear(tx)
                        /\ DividendDefect(tx, issues[k].msg)

Defective == {d[1] : d \in TransactionDefects}

\* C14: when exactly one transaction of the batch has a defect (empty ticker,
\* quantity <= 0, missing exchange rate, missing PLN value), the FIFO
\* calculator reports an issue for it and still matches a Sell of the tax year
\* against an earlier Buy that covers it, and the dividend calculator, when the
\* defective record is a dividend it processes, reports an issue and still
\* has every other processed dividend in a summary.
C14_RestOfBatchComputed ==
    /\ (run = 1 /\ pc = "done" /\ Cardinality(Defective) = 1) =>
          /\ \E k \in 1..Len(issues) : issues[k].index + 1 \in Defective
          /\ \A b \in 1..Len(heap) : \A s \in 1..Len(heap) :
                ( /\ Len(heap) = 3
                  /\ {b, s} \cap Defective = {}
                  /\ heap[b].type = "BUY" /\ heap[s].type = "SELL"
                  /\ heap[b].ticker = heap[s].ticker
                  /\ heap[b].date < heap[s].date
                  /\ DLe(heap[s].quantity, heap[b].quantity)
                  /\ InTaxYear(heap[s]) )
                => \E k \in 1..Len(matches) :
                      /\ matches[k].sell_transaction = s
                      /\ matches[k].buy_transaction = b
    /\ (run = 2 /\ pc = "done" /\ Cardinality(Defective \cap Processed) = 1) =>
          /\ issues # <<>>
          /\ \A r \in Processed \ Defective :
                ~Unresolved(heap[r]) =>
                    \E k \in 1..Len(summaries) :
                        r \in Elements(summaries[k].transactions)

\* the batch without its Buy and Sell transactions
DividendObjects(h) ==
    LET IsDividend(tx) == tx.type = "DIVIDEND"
    IN  SelectSeq(h, IsDividend)

\* summaries with the transaction objects in the place of their references
SummaryValues(sums, h) ==
    [k \in 1..Len(sums) |->
        [sums[k] EXCEPT
            !.transactions = [i \in 1..Len(sums[k].transactions) |->
                                 h[sums[k].transactions[i]]]]]

\* C17: what the dividend calculator returns on a batch (summaries,
\* statistics, issues) is what it returns on the dividends of the batch alone,
\* so the same for all batches with these dividends in this order, whatever
\* Buy and Sell transactions they hold.
C17_DividendsIndependentOfTrades ==
    (run = 2 /\ pc = "done") =>
        LET alone == DividendObjects(heap)
            r     == DividendCalculate(alone, tax_year)
        IN  /\ SummaryValues(summaries, heap) = SummaryValues(r.summaries, alone)
            /\ stats = r.stats
            /\ issues = r.issues

\* the dividend calculator has returned summaries on a batch whose trades
\* the FIFO calculator rejected
C17_Witness ==
    /\ run = 2 /\ pc = "done"
    /\ first.issues # <<>>
    /\ \E r \in 1..Len(heap) : heap[r].type = "BUY"
    /\ \E r \in 1..Len(heap) : heap[r].type = "SELL"
    /\ summaries # <<>>
    /\ issues = <<>>

\* the Buys and Sells of a batch, in their order
TradesOf(transactions) ==
    LET IsTrade(tx) == tx.type \in {"BUY", "SELL"}
    IN  SelectSeq(transactions, IsTrade)

\* C25: for a batch whose Buys and Sells pass validation on their own,
\* FifoCalculator.calculate returns the same matches, issues, ledger and
\* statistics for the batch as for the batch without its Dividend
\* transactions.
C25_TradesIndependentOfDividends ==
    (/\ pc = "start"
     /\ run = 1
     /\ TradesOf(heap) # <<>>
     /\ FifoValidate(TradesOf(heap)) = <<>>) =>
        LET with    == FifoCalculate(heap, tax_year)
            without == FifoCalculate(TradesOf(heap), tax_year)
        IN  /\ SameOutcome(with, without)
            /\ with.result.stats = without.result.stats

\* one step of the FIFO run or of the dividend run: an object of the batch
\* changes only if it is a Buy that a new match uses in part, and then only
\* in its quantity, which falls by the used quantity
C29_Step ==
    /\ Len(heap') = Len(heap)
    /\ \A b \in 1..Len(heap) :
          heap'[b] # heap[b] =>
              /\ heap[b].type = "BUY"
              /\ heap'[b] = [heap[b] EXCEPT !.quantity = heap'[b].quantity]
              /\ \E k \in (Len(matches) + 1)..Len(matches') :
                    /\ matches'[k].buy_transaction = b
                    /\ DLt(matches'[k].used_quantity, heap[b].quantity)
                    /\ heap'[b].quantity =
                          DSub(heap[b].quantity, matches'[k].used_quantity)

\* C29: the FIFO run and the dividend run change nothing in the transactions
\* of the batch but the quantity of a Buy that a sale consumes in part: Sells
\* and Dividends stay as they are, a Buy keeps its total_value_pln, fees_pln
\* and date, and a Buy used whole or not used keeps its quantity.
C29_OnlyCutBuysChange == [][C29_Step]_vars

\* both runs are through, a Buy of the batch has been cut from 10 to 7
\* shares by a sale and a dividend of the batch is in a summary
C29_Witness ==
    /\ pc = "done"
    /\ run = 2
    /\ summaries # <<>>
    /\ \E b \in 1..Len(heap) :
          /\ heap[b].type = "BUY"
          /\ heap[b].quantity = Dec(7)
          /\ heap[b].total_value_pln = Dec(100)

====
